---- MODULE Spec2Model ----
(***************************************************************************)
(* A state-machine model of onetun (SideStore fork): the lifecycle handle  *)
(* and task spawning of src/src/lib.rs, the port-forward entry points of   *)
(* src/src/tunnel/mod.rs, and the select loops of the TCP and the UDP      *)
(* virtual interface (src/src/virtual_iface/tcp.rs, udp.rs).               *)
(*                                                                         *)
(* Three state machines share this module, each with its own               *)
(* specification; an action of one leaves the variables of the others      *)
(* unchanged:                                                              *)
(*   Spec / FairSpec        start, blocking_start, Handle::kill, tasks     *)
(*   TcpSpec                TcpVirtualInterface::poll_loop                 *)
(*   UdpSpec                UdpVirtualInterface::poll_loop                 *)
(*   StartupSpec            the startup of both interfaces, for every      *)
(*                          configuration of the bounds                    *)
(***************************************************************************)
EXTENDS Integers, Sequences, FiniteSets, TLC

(***************************************************************************)
(* Bounds of the model.                                                    *)
(***************************************************************************)
\* Longest list of local, and of remote, port-forwards in a configuration.
MaxForwards == 1
\* How many times Handle::kill is invoked at most.
MaxKills == 2

\* Virtual port numbers the pools hand out: 1..NumPorts (per protocol).
NumPorts == 2
\* Events the proxy servers and the device publish on the bus in one run.
MaxEvents == 3
\* Events published on the bus and not yet received by the interface.
MaxBus == 1
\* Capacity of a client socket's transmit buffer, in bytes (the model's
\* stand-in for the MAX_PACKET bytes of new_client_socket).
TxCap == 1
\* Longest LocalData payload, in bytes: one more than the transmit buffer
\* takes, so that a send can be short.
MaxChunk == TxCap + 1
\* Bytes the far side sends to one client socket.
MaxRemote == 1
\* The largest datagram an OS peer sends to a UDP proxy server, in bytes.
MaxDatagram == 1
\* Virtual port numbers the UDP pool hands out: 1..NumUdpPorts.
NumUdpPorts == 1
\* Hosts of each address family among the virtual addresses of a configuration.
NumHosts == 2
\* Longest list of remote forwards in the configurations an interface is
\* started with, and the number of source ports they choose from.
MaxRemoteForwards == 2

Protocols == {"Tcp", "Udp"}
VirtualPorts == 1..NumPorts
UdpVirtualPorts == 1..NumUdpPorts

\* IpAddr: an IPv4 or an IPv6 address.
Families == {"v4", "v6"}
IpAddrs == [family : Families, host : 1..NumHosts]

\* The source ports of remote forwards: numbers the pools do not hand out.
RemotePorts == (NumUdpPorts + 1)..(NumUdpPorts + MaxRemoteForwards)

\* All sequences over S of length at most n.
SeqsUpTo(S, n) == UNION {[1..k -> S] : k \in 0..n}

VARIABLES
    \* ---- lifecycle (src/src/lib.rs, src/src/tunnel/mod.rs, src/ffi) ----
    port_forwards,          \* config.port_forwards: the protocol of each
    remote_port_forwards,   \* config.remote_port_forwards: the protocol of each
    source_peer_ip,         \* config.source_peer_ip
    destination_ip,         \* destination.ip() of each of config.port_forwards
    remote_source,          \* <<source.ip(), source.port()>> of each remote forward
    caller_result,          \* what blocking_start returned: "none" | "Ok" | "Err"
    caller_handle,          \* what the caller holds: "none" | "unit" | "handle"
    start_pc,               \* the runtime thread: "idle" | "thread" | "pending" | "panicked"
    tasks,                  \* spawned task -> "running" | "ok" | "err"
    kill_rx,                \* tasks holding a live receiver of the kill channel
    kill_pending,           \* receivers with an unread kill message
    kill_count,             \* invocations of Handle::kill so far
    kill_panicked,          \* Handle::kill panicked (send(..).unwrap() on Err)
    bind_failed,            \* port-forward tasks whose proxy server failed to bind
    \* ---- the bus and the TCP proxy servers, as seen by an interface ----
    bus,                    \* events published and not yet received by the interface
    published,              \* number of events published by proxies and device
    proxy_phase,            \* per virtual port of the pool: "free" | "open" | "eof"
    kill_signal,            \* a kill message waits at the interface's receiver
    \* ---- TcpVirtualInterface::poll_loop (src/src/virtual_iface/tcp.rs) ----
    tcp_pc,                 \* "init" | "running" | "ok" | "startup_err" | "err"
    tcp_next_poll,          \* next_poll: "None" | "Some"
    tcp_port_client_handle_map,  \* VirtualPort -> SocketHandle
    tcp_send_queue,         \* VirtualPort -> sequence of chunks
    tcp_sockets,            \* the sockets of iface: SocketHandle -> socket
    tcp_accepted,           \* per port: bytes of the LocalData appended to its queue
    tcp_sent,               \* per port: bytes taken by send_slice
    tcp_remote_data,        \* per port: payloads of the RemoteData published
    tcp_ip_addrs,           \* the addresses installed on iface: set of IpCidr
    tcp_poll_cause,         \* what the sleep of the select rests on: "event" (an
                            \* event set next_poll since the last poll), or the
                            \* last result of iface.poll_delay: "zero" (Some(ZERO)),
                            \* "none" (None), "until" (Some(delay))
    \* ---- UdpVirtualInterface::poll_loop (src/src/virtual_iface/udp.rs) ----
    udp_pc,                 \* "init" | "running" | "startup_err" | "err"
    udp_next_poll,          \* next_poll: "None" | "Some"
    wake,                   \* the loop's wake flag
    udp_port_client_handle_map,  \* VirtualPort -> SocketHandle
    udp_send_queue,         \* VirtualPort -> sequence of (destination, data)
    udp_sockets,            \* the sockets of iface: SocketHandle -> socket
    udp_received,           \* per port: (destination, data) of the LocalData received
    udp_offered,            \* per port: (destination, data) passed to send_slice
    udp_remote_data,        \* per port: payloads of the RemoteData published
    udp_ip_addrs,           \* the addresses installed on iface: set of IpCidr
    udp_poll_cause          \* as tcp_poll_cause, for the UDP loop

lifeVars == <<port_forwards, remote_port_forwards, source_peer_ip, destination_ip,
              remote_source, caller_result, caller_handle,
              start_pc, tasks, kill_rx, kill_pending, kill_count, kill_panicked,
              bind_failed>>

busVars == <<bus, published, proxy_phase, kill_signal>>

tcpVars == <<tcp_pc, tcp_next_poll, tcp_port_client_handle_map, tcp_send_queue,
             tcp_sockets, tcp_accepted, tcp_sent, tcp_remote_data, tcp_ip_addrs,
             tcp_poll_cause>>

udpVars == <<udp_pc, udp_next_poll, wake, udp_port_client_handle_map, udp_send_queue,
             udp_sockets, udp_received, udp_offered, udp_remote_data, udp_ip_addrs,
             udp_poll_cause>>

vars == <<lifeVars, busVars, tcpVars, udpVars>>

\* What the actions of one state machine leave unchanged.
notLife == <<busVars, tcpVars, udpVars>>
notTcp == <<lifeVars, udpVars>>
notUdp == <<lifeVars, tcpVars>>
ifaceVars == <<lifeVars, tcpVars, udpVars>>

(***************************************************************************)
(* Lifecycle: start, blocking_start, Handle::kill and the spawned tasks.   *)
(***************************************************************************)

\* The tasks start spawns for a configuration, in the order of lib.rs.
WgTasks == {<<"routine", 0>>, <<"consume", 0>>, <<"produce", 0>>}

\* lib.rs:103-107: the TCP interface is spawned iff a local forward is TCP.
SpawnsTcpIface(pfs) == \E i \in DOMAIN pfs : pfs[i] = "Tcp"

\* A condition that looks at the local forwards only: what the condition of
\* lib.rs:120-128 must not be.
SpawnsUdpIfaceLocalOnly(pfs, rpfs) == \E i \in DOMAIN pfs : pfs[i] = "Udp"

\* lib.rs:120-128: the UDP interface is spawned iff a local or remote forward is UDP.
SpawnsUdpIface(pfs, rpfs) ==
    \/ \E i \in DOMAIN pfs : pfs[i] = "Udp"
    \/ \E i \in DOMAIN rpfs : rpfs[i] = "Udp"

SpawnedTasks(pfs, rpfs) ==
    WgTasks
    \cup (IF SpawnsTcpIface(pfs) THEN {<<"tcp_iface", 0>>} ELSE {})
    \cup (IF SpawnsUdpIface(pfs, rpfs) THEN {<<"udp_iface", 0>>} ELSE {})
    \cup {<<"pf", i>> : i \in DOMAIN pfs}
    \cup {<<"rpf", i>> : i \in DOMAIN rpfs}

\* The tunnel's three tasks race their work against the shutdown signal.
WgTaskHasKillArm == TRUE

\* TcpVirtualInterface::poll_loop has the arm `_ = kill_switch.recv()`.
TcpIfaceHasKillArm == TRUE

\* UdpVirtualInterface::poll_loop takes no kill receiver and its select has
\* only the poll arm and the event arm.
UdpIfaceHasKillArm == FALSE

\* port_forward: both protocols select the proxy server against kill_switch.recv().
PortForwardHasKillArm(proto) == proto \in {"Tcp", "Udp"}

\* remote_port_forward: only the UDP branch selects against kill_switch.recv().
RemotePortForwardHasKillArm(proto) == proto = "Udp"

HasKillArm(t) ==
    CASE t[1] \in {"routine", "consume", "produce"} -> WgTaskHasKillArm
      [] t[1] = "tcp_iface" -> TcpIfaceHasKillArm
      [] t[1] = "udp_iface" -> UdpIfaceHasKillArm
      [] t[1] = "pf" -> PortForwardHasKillArm(port_forwards[t[2]])
      [] t[1] = "rpf" -> RemotePortForwardHasKillArm(remote_port_forwards[t[2]])

\* What blocking_start gives its caller: Ok(()) - the unit value, not the Handle.
BlockingStartValue == "unit"

\* The addresses of a configuration whose virtual addresses are IPv4 and
\* whose remote forwards have distinct source ports.
PlainAddressing ==
    /\ source_peer_ip = [family |-> "v4", host |-> 1]
    /\ destination_ip = [i \in DOMAIN port_forwards |-> [family |-> "v4", host |-> 2]]
    /\ remote_source =
         [i \in DOMAIN remote_port_forwards |->
            <<[family |-> "v4", host |-> 1], NumUdpPorts + i>>]

LifeInit ==
    /\ port_forwards \in SeqsUpTo(Protocols, MaxForwards)
    /\ remote_port_forwards \in SeqsUpTo(Protocols, MaxForwards)
    /\ PlainAddressing
    /\ caller_result = "none"
    /\ caller_handle = "none"
    /\ start_pc = "idle"
    /\ tasks = <<>>
    /\ kill_rx = {}
    /\ kill_pending = {}
    /\ kill_count = 0
    /\ kill_panicked = FALSE
    /\ bind_failed = {}

\* blocking_start: builds the runtime, spawns the thread that runs start, and
\* returns Ok(()) at once.
BlockingStart ==
    /\ caller_result = "none"
    /\ caller_result' = "Ok"
    /\ caller_handle' = BlockingStartValue
    /\ start_pc' = "thread"
    /\ UNCHANGED <<port_forwards, remote_port_forwards, source_peer_ip,
                   destination_ip, remote_source, tasks, kill_rx, kill_pending,
                   kill_count, kill_panicked, bind_failed>>
    /\ UNCHANGED notLife

\* blocking_start: runtime::Builder::build()? fails.
BlockingStartNoRuntime ==
    /\ caller_result = "none"
    /\ caller_result' = "Err"
    /\ UNCHANGED <<port_forwards, remote_port_forwards, source_peer_ip,
                   destination_ip, remote_source, caller_handle, start_pc, tasks,
                   kill_rx, kill_pending, kill_count, kill_panicked, bind_failed>>
    /\ UNCHANGED notLife

\* start, on the runtime thread, when WireGuardTunnel::new succeeds: creates
\* the kill channel and the Handle, spawns every task, each with a receiver
\* from handle.get_killer(), and then awaits pending() forever.
Start ==
    /\ start_pc = "thread"
    /\ start_pc' = "pending"
    /\ tasks' = [t \in SpawnedTasks(port_forwards, remote_port_forwards) |-> "running"]
    /\ kill_rx' = SpawnedTasks(port_forwards, remote_port_forwards)
    /\ UNCHANGED <<port_forwards, remote_port_forwards, source_peer_ip,
                   destination_ip, remote_source, caller_result, caller_handle,
                   kill_pending, kill_count, kill_panicked, bind_failed>>
    /\ UNCHANGED notLife

\* start when init_logger or WireGuardTunnel::new fails: .unwrap() panics on
\* the runtime thread.
StartPanics ==
    /\ start_pc = "thread"
    /\ start_pc' = "panicked"
    /\ UNCHANGED <<port_forwards, remote_port_forwards, source_peer_ip,
                   destination_ip, remote_source, caller_result, caller_handle,
                   tasks, kill_rx, kill_pending, kill_count, kill_panicked,
                   bind_failed>>
    /\ UNCHANGED notLife

\* Handle::kill: self.kill_switch.send(()).unwrap(). A broadcast send fails
\* when no receiver is alive, and the unwrap then panics.
Kill ==
    /\ start_pc = "pending"
    /\ kill_count < MaxKills
    /\ ~kill_panicked
    /\ kill_count' = kill_count + 1
    /\ IF kill_rx = {}
         THEN /\ kill_panicked' = TRUE
              /\ UNCHANGED kill_pending
         ELSE /\ kill_pending' = kill_rx
              /\ UNCHANGED kill_panicked
    /\ UNCHANGED <<port_forwards, remote_port_forwards, source_peer_ip,
                   destination_ip, remote_source, caller_result, caller_handle,
                   start_pc, tasks, kill_rx, bind_failed>>
    /\ UNCHANGED notLife

\* The other result a task can have.
KillArmReportsError == "err"

\* What the kill arm of a select returns: Ok(()).
KillArmResult == "ok"

\* A start that had returned would have dropped the Handle.
SenderDropped == FALSE

\* The sender of the kill channel lives in the Handle, a local of start that
\* is alive while start awaits pending(): start never returns, so the Handle
\* is never dropped.
SenderAlive == start_pc = "pending"

\* kill_switch.recv() completes, with any result (the arm's pattern is `_`):
\* a message sent by kill is pending for the receiver, or every sender is
\* dropped and recv yields Closed.
KillArmReady(t) == t \in kill_pending \/ ~SenderAlive

\* A task whose loop selects on kill_switch.recv() leaves through that arm
\* and returns Ok(()); its receiver is dropped.
TaskKilled(t) ==
    /\ t \in DOMAIN tasks
    /\ tasks[t] = "running"
    /\ KillArmReady(t)
    /\ HasKillArm(t)
    /\ tasks' = [tasks EXCEPT ![t] = KillArmResult]
    /\ kill_rx' = kill_rx \ {t}
    /\ kill_pending' = kill_pending \ {t}
    /\ UNCHANGED <<port_forwards, remote_port_forwards, source_peer_ip,
                   destination_ip, remote_source, caller_result, caller_handle,
                   start_pc, kill_count, kill_panicked, bind_failed>>
    /\ UNCHANGED notLife

\* What remote_port_forward returns for a TCP forward: Ok(()), at once.
RemoteTcpResult == "ok"

\* remote_port_forward with protocol TCP.
RemoteTcpReturn(i) ==
    /\ <<"rpf", i>> \in DOMAIN tasks
    /\ tasks[<<"rpf", i>>] = "running"
    /\ remote_port_forwards[i] = "Tcp"
    /\ tasks' = [tasks EXCEPT ![<<"rpf", i>>] = RemoteTcpResult]
    /\ kill_rx' = kill_rx \ {<<"rpf", i>>}
    /\ kill_pending' = kill_pending \ {<<"rpf", i>>}
    /\ UNCHANGED <<port_forwards, remote_port_forwards, source_peer_ip,
                   destination_ip, remote_source, caller_result, caller_handle,
                   start_pc, kill_count, kill_panicked, bind_failed>>
    /\ UNCHANGED notLife

\* The proxy server of a port-forward task fails to bind its listener: the
\* select yields its Err, which the spawned task only logs.
ProxyBindFails(t) ==
    /\ t \in DOMAIN tasks
    /\ tasks[t] = "running"
    /\ \/ t[1] = "pf"
       \/ t[1] = "rpf" /\ remote_port_forwards[t[2]] = "Udp"
    /\ tasks' = [tasks EXCEPT ![t] = "err"]
    /\ bind_failed' = bind_failed \cup {t}
    /\ kill_rx' = kill_rx \ {t}
    /\ kill_pending' = kill_pending \ {t}
    /\ UNCHANGED <<port_forwards, remote_port_forwards, source_peer_ip,
                   destination_ip, remote_source, caller_result, caller_handle,
                   start_pc, kill_count, kill_panicked>>
    /\ UNCHANGED notLife

\* A virtual interface leaves poll_loop through one of its `?` operators.
IfaceFails(t) ==
    /\ t \in DOMAIN tasks
    /\ tasks[t] = "running"
    /\ t[1] \in {"tcp_iface", "udp_iface"}
    /\ tasks' = [tasks EXCEPT ![t] = "err"]
    /\ kill_rx' = kill_rx \ {t}
    /\ kill_pending' = kill_pending \ {t}
    /\ UNCHANGED <<port_forwards, remote_port_forwards, source_peer_ip,
                   destination_ip, remote_source, caller_result, caller_handle,
                   start_pc, kill_count, kill_panicked, bind_failed>>
    /\ UNCHANGED notLife

AllTaskIds ==
    WgTasks \cup {<<"tcp_iface", 0>>, <<"udp_iface", 0>>}
    \cup {<<"pf", i>> : i \in 1..(MaxForwards + 1)}
    \cup {<<"rpf", i>> : i \in 1..(MaxForwards + 1)}

\* Before start has run no interface exists.
IfaceIdle ==
    /\ bus = <<>> /\ published = 0
    /\ proxy_phase = [v \in VirtualPorts |-> "free"] /\ kill_signal = FALSE
    /\ tcp_pc = "init" /\ tcp_next_poll = "None"
    /\ tcp_port_client_handle_map = <<>> /\ tcp_send_queue = <<>> /\ tcp_sockets = <<>>
    /\ tcp_accepted = [v \in VirtualPorts |-> <<>>]
    /\ tcp_sent = [v \in VirtualPorts |-> <<>>]
    /\ tcp_remote_data = [v \in VirtualPorts |-> <<>>]
    /\ tcp_ip_addrs = {} /\ tcp_poll_cause = "none"
    /\ udp_pc = "init" /\ udp_next_poll = "None" /\ wake = FALSE
    /\ udp_port_client_handle_map = <<>> /\ udp_send_queue = <<>> /\ udp_sockets = <<>>
    /\ udp_received = <<>> /\ udp_offered = <<>> /\ udp_remote_data = <<>>
    /\ udp_ip_addrs = {} /\ udp_poll_cause = "none"

Init == LifeInit /\ IfaceIdle

Next ==
    \/ BlockingStart
    \/ BlockingStartNoRuntime
    \/ Start
    \/ StartPanics
    \/ Kill
    \/ \E t \in AllTaskIds : TaskKilled(t)
    \/ \E i \in 1..(MaxForwards + 1) : RemoteTcpReturn(i)
    \/ \E t \in AllTaskIds : ProxyBindFails(t)
    \/ \E t \in AllTaskIds : IfaceFails(t)

Spec == Init /\ [][Next]_vars

\* The runtime runs every spawned task that is ready: a task whose kill arm
\* is ready is eventually polled, and the runtime thread runs start.
FairSpec ==
    /\ Spec
    /\ WF_vars(Start \/ StartPanics)
    /\ \A t \in AllTaskIds : WF_vars(TaskKilled(t))
    /\ \A i \in 1..(MaxForwards + 1) : WF_vars(RemoteTcpReturn(i))

(***************************************************************************)
(* The bus as one interface sees it, and the TCP proxy servers that        *)
(* publish on it (tunnel/tcp.rs and events.rs, described in the            *)
(* specification sections 4.1 and 4.5).                                    *)
(***************************************************************************)

Restrict(f, S) == [x \in S |-> f[x]]

Min(a, b) == IF a < b THEN a ELSE b

IsPrefix(a, b) == Len(a) <= Len(b) /\ SubSeq(b, 1, Len(a)) = a

\* An event of the bus. `forward` names the port forward an event carries
\* (the task of the forward), NoForward when it carries none; the virtual port
\* of an event is the pair of `port` and `proto`.
NoForward == <<"none", 0>>

Event(type, forward, port, proto, data) ==
    [type |-> type, forward |-> forward, port |-> port, proto |-> proto, data |-> data]

\* An event reaches the endpoint of the interface once the interface has
\* subscribed (new_endpoint, before the loop) and until poll_loop returns;
\* the model bounds the events of a run and the events in flight.
Subscribed == tcp_pc = "running" \/ udp_pc = "running"

CanPublish == Subscribed /\ published < MaxEvents /\ Len(bus) < MaxBus

Publish(e) ==
    /\ CanPublish
    /\ bus' = Append(bus, e)
    /\ published' = published + 1

\* The bytes of the payload of n bytes published as event number k + 1: every
\* byte of a run is distinct.
Payload(k, n) == [i \in 1..n |-> k * MaxChunk + i]

\* The TCP forward of the configuration, whose proxy server publishes the
\* events of its connections.
TcpForward == <<"pf", CHOOSE i \in DOMAIN port_forwards : port_forwards[i] = "Tcp">>

BusInit ==
    /\ bus = <<>>
    /\ published = 0
    /\ proxy_phase = [v \in VirtualPorts |-> "free"]
    /\ kill_signal = FALSE

\* TCP proxy server, step 1 and 2: a connection is accepted, a free virtual
\* port is allocated for it and ClientConnectionInitiated is published.
ProxyAccept(v) ==
    /\ proxy_phase[v] = "free"
    /\ Publish(Event("ClientConnectionInitiated", TcpForward, v, "Tcp", <<>>))
    /\ proxy_phase' = [proxy_phase EXCEPT ![v] = "open"]
    /\ UNCHANGED <<kill_signal, ifaceVars>>

\* OS -> tunnel half: bytes read from the OS socket are published as LocalData.
ProxyLocalData(v, n) ==
    /\ proxy_phase[v] = "open"
    /\ Publish(Event("LocalData", TcpForward, v, "Tcp", Payload(published, n)))
    /\ UNCHANGED <<proxy_phase, kill_signal, ifaceVars>>

\* OS -> tunnel half: clean EOF publishes ClientConnectionDropped and stops
\* this half.
ProxyEof(v) ==
    /\ proxy_phase[v] = "open"
    /\ Publish(Event("ClientConnectionDropped", NoForward, v, "Tcp", <<>>))
    /\ proxy_phase' = [proxy_phase EXCEPT ![v] = "eof"]
    /\ UNCHANGED <<kill_signal, ifaceVars>>

\* Both halves are done (the tunnel -> OS half stops on the
\* ClientConnectionDropped of its port): the port goes back to the pool.
ProxyRelease(v) ==
    /\ Subscribed
    /\ proxy_phase[v] = "eof"
    /\ proxy_phase' = [proxy_phase EXCEPT ![v] = "free"]
    /\ UNCHANGED <<bus, published, kill_signal, ifaceVars>>

\* The virtual device of a protocol enqueues an inbound packet and publishes
\* VirtualDeviceFed(protocol).
DeviceFed(proto) ==
    /\ Publish(Event("VirtualDeviceFed", NoForward, 0, proto, <<>>))
    /\ UNCHANGED <<proxy_phase, kill_signal, ifaceVars>>

\* Handle::kill reaches the receiver held by the interface's poll loop.
KillSent ==
    /\ tcp_pc = "running"
    /\ ~kill_signal
    /\ kill_signal' = TRUE
    /\ UNCHANGED <<bus, published, proxy_phase, ifaceVars>>

(***************************************************************************)
(* TcpVirtualInterface::poll_loop.                                         *)
(***************************************************************************)

\* The logs of the flow records: per virtual port, empty.
EmptyLog == [v \in VirtualPorts |-> <<>>]

\* A socket of the interface. rx holds the bytes in the receive buffer and
\* rcvd counts the bytes the far side has sent so far.
Socket(kind, state) ==
    [kind |-> kind, state |-> state, rx |-> <<>>, rcvd |-> 0]

\* new_server_socket: zero-length buffers, listening on the destination.
NewServerSocket == Socket("server", "Listen")

\* new_client_socket followed by connect: the socket is in SynSent.
NewClientSocket == Socket("client", "SynSent")

\* iface.add_socket: the first free slot of the socket set.
NewHandle(sockets) == CHOOSE h \in 0..Cardinality(DOMAIN sockets) : h \notin DOMAIN sockets

\* TcpSocket::close. "FinWait1" also stands for FinWait2, Closing and TimeWait.
StateAfterClose(st) ==
    CASE st \in {"Listen", "SynSent"} -> "Closed"
      [] st = "Established" -> "FinWait1"
      [] st = "CloseWait" -> "LastAck"
      [] OTHER -> st

\* The states iface.poll can move a socket to (segments from the far side,
\* timers, resets).
StackNextStates(st) ==
    CASE st = "SynSent" -> {"SynSent", "Established", "Closed"}
      [] st = "Established" -> {"Established", "CloseWait", "Closed"}
      [] st = "CloseWait" -> {"CloseWait", "Closed"}
      [] st = "FinWait1" -> {"FinWait1", "Closed"}
      [] st = "LastAck" -> {"LastAck", "Closed"}
      [] OTHER -> {st}

\* TcpSocket::may_send
MaySend(s) == s.state \in {"Established", "CloseWait"}

\* TcpSocket::can_send: may send and the transmit buffer is not full. The
\* free space of the transmit buffer, 0..TxCap bytes, depends on what the far
\* side has acknowledged by the time of the call.
CanSend(s, free) == MaySend(s) /\ free > 0

\* TcpSocket::can_recv: the receive buffer is not empty.
CanRecv(s) == s.rx # <<>>

\* iface.poll on one client socket: the state moves, and a byte of the far
\* side arrives or not. An error of iface.poll is the outcome that changes
\* nothing.
StackOutcomes(s) ==
    {[s EXCEPT !.state = st, !.rx = r[1], !.rcvd = r[2]] :
        st \in StackNextStates(s.state),
        r \in {<<s.rx, s.rcvd>>} \cup
              (IF s.state \in {"Established", "FinWait1"} /\ s.rcvd < MaxRemote
                 THEN {<<Append(s.rx, s.rcvd + 1), s.rcvd + 1>>}
                 ELSE {})}

\* The queue after send_slice took the first n bytes of chunk c, the head of
\* the queue whose rest is `rest`: a short send pushes the remainder back to
\* the front.
AfterSend(c, n, rest) ==
    IF n < Len(c) THEN <<SubSeq(c, n + 1, Len(c))>> \o rest ELSE rest

\* The queue after send_slice returned an error for the popped chunk c.
AfterSendError(c, rest) == rest

\* Whether the send step closes a socket that can send: its queue is empty
\* and the far side has half-closed.
ClosesInSendStep(s, q) == q = <<>> /\ s.state = "CloseWait"

\* A send step that closes a half-closed socket that can send whether or not
\* its queue holds data: what the send step must not be.
SendStepClosingEarly(s, q, free) ==
    IF ~CanSend(s, free) THEN {[sock |-> s, queue |-> q, sent |-> <<>>]}
    ELSE IF s.state = "CloseWait"
      THEN {[sock |-> [s EXCEPT !.state = StateAfterClose(@)], queue |-> q, sent |-> <<>>]}
    ELSE IF q # <<>>
      THEN LET c == Head(q)
               n == Min(Len(c), free)
           IN  { [sock |-> s,
                  queue |-> AfterSend(c, n, Tail(q)),
                  sent |-> SubSeq(c, 1, n)],
                 [sock |-> s, queue |-> AfterSendError(c, Tail(q)), sent |-> <<>>] }
    ELSE {[sock |-> s, queue |-> q, sent |-> <<>>]}

\* The send step of the poll arm for one client socket s with send queue q
\* and `free` bytes free in the transmit buffer: the outcomes
\* [sock, queue, sent]. send_slice takes what fits, or returns an error.
SendStepWith(s, q, free) ==
    IF ~CanSend(s, free) THEN {[sock |-> s, queue |-> q, sent |-> <<>>]}
    ELSE IF q # <<>>
      THEN LET c == Head(q)
               n == Min(Len(c), free)
           IN  { [sock |-> s,
                  queue |-> AfterSend(c, n, Tail(q)),
                  sent |-> SubSeq(c, 1, n)],
                 [sock |-> s, queue |-> AfterSendError(c, Tail(q)), sent |-> <<>>] }
    ELSE IF ClosesInSendStep(s, q)
      THEN {[sock |-> [s EXCEPT !.state = StateAfterClose(@)], queue |-> q, sent |-> <<>>]}
    ELSE {[sock |-> s, queue |-> q, sent |-> <<>>]}

SendStep(s, q) == UNION {SendStepWith(s, q, free) : free \in 0..TxCap}

\* A receive step that publishes RemoteData for every read, empty or not:
\* what the receive step must not be.
RemoteDataUnfiltered(data) == <<data>>

\* The RemoteData payloads the receive step publishes for data read.
RemoteDataFor(data) == IF data # <<>> THEN <<data>> ELSE <<>>

\* The receive step of the poll arm for one client socket: the outcomes
\* [sock, remote]; recv drains the whole buffer or returns an error.
RecvStep(s) ==
    IF ~CanRecv(s) THEN {[sock |-> s, remote |-> <<>>]}
    ELSE { [sock |-> [s EXCEPT !.rx = <<>>], remote |-> RemoteDataFor(s.rx)],
           [sock |-> s, remote |-> <<>>] }

\* iface.poll, the send step and the receive step for one client socket.
TcpPollOutcomes(s, q) ==
    UNION { UNION { { [sock |-> b.sock, queue |-> a.queue, sent |-> a.sent, remote |-> b.remote]
                      : b \in RecvStep(a.sock) }
                    : a \in SendStep(s1, q) }
            : s1 \in StackOutcomes(s) }

\* One outcome for every port of S.
RECURSIVE TcpCombine(_)
TcpCombine(S) ==
    IF S = {} THEN {<<>>}
    ELSE LET v == CHOOSE x \in S : TRUE
         IN  { (v :> o) @@ f :
                 f \in TcpCombine(S \ {v}),
                 o \in TcpPollOutcomes(tcp_sockets[tcp_port_client_handle_map[v]],
                                       tcp_send_queue[v]) }

\* The reap: the ports whose client socket is Closed.
Reaped == {v \in DOMAIN tcp_port_client_handle_map :
             tcp_sockets[tcp_port_client_handle_map[v]].state = "Closed"}

\* The sleep of the select: never for (None, 0), at once for (None, _), and
\* at the instant `until` for (Some(until), _), which time reaches.
TcpSleepReady ==
    ~(tcp_next_poll = "None" /\ DOMAIN tcp_port_client_handle_map = {})

TcpInit ==
    /\ tcp_pc = "init"
    /\ tcp_next_poll = "None"
    /\ tcp_port_client_handle_map = <<>>
    /\ tcp_send_queue = <<>>
    /\ tcp_sockets = <<>>
    /\ tcp_accepted = EmptyLog
    /\ tcp_sent = EmptyLog
    /\ tcp_remote_data = EmptyLog
    /\ tcp_ip_addrs = {}
    /\ tcp_poll_cause = "none"

\* The interface keeps the forwards of its own protocol (new).
TcpForwards == {i \in DOMAIN port_forwards : port_forwards[i] = "Tcp"}

\* IpCidr::new(addr, prefix_len)
IpCidr(addr, prefix_len) == [address |-> addr, prefix_len |-> prefix_len]

\* TcpVirtualInterface::addresses: source_peer_ip and the destination of
\* every forward of the interface, each with prefix length 32.
TcpAddresses ==
    {IpCidr(addr, 32) :
       addr \in {source_peer_ip} \cup {destination_ip[i] : i \in TcpForwards}}

\* poll_loop before the loop: one server socket for each TCP forward.
TcpStartup ==
    /\ tcp_pc = "init"
    /\ tcp_pc' = "running"
    /\ tcp_ip_addrs' = TcpAddresses
    /\ tcp_sockets' = [h \in 0..(Cardinality(TcpForwards) - 1) |-> NewServerSocket]
    /\ UNCHANGED <<tcp_next_poll, tcp_port_client_handle_map, tcp_send_queue,
                   tcp_accepted, tcp_sent, tcp_remote_data, tcp_poll_cause>>
    /\ UNCHANGED <<busVars, notTcp>>

\* poll_loop returns: its interface, maps and queues are dropped.
TcpReturn(result) ==
    /\ tcp_pc' = result
    /\ tcp_port_client_handle_map' = <<>>
    /\ tcp_send_queue' = <<>>
    /\ tcp_sockets' = <<>>
    /\ tcp_next_poll' = "None"
    /\ tcp_accepted' = EmptyLog
    /\ tcp_sent' = EmptyLog
    /\ tcp_remote_data' = EmptyLog
    /\ tcp_ip_addrs' = {}
    /\ tcp_poll_cause' = "none"

\* new_server_socket(...)? fails: listen returned an error.
TcpStartupFails ==
    /\ tcp_pc = "init"
    /\ TcpForwards # {}
    /\ TcpReturn("startup_err")
    /\ UNCHANGED <<busVars, notTcp>>

\* The results of iface.poll_delay: None, Some(ZERO), Some(delay).
PollDelays == {"none", "zero", "until"}

\* next_poll from iface.poll_delay: Some(now + delay) for a delay that is not
\* zero, None otherwise.
NextPoll(delay) == IF delay = "until" THEN "Some" ELSE "None"

\* A poll arm that hands a stack error to its caller with `?`: the loop
\* returns the error. What the poll arm must not be.
TcpPollReturnsError ==
    /\ tcp_pc = "running"
    /\ TcpSleepReady
    /\ TcpReturn("err")
    /\ UNCHANGED <<busVars, notTcp>>

\* The poll arm of the select: reap, iface.poll, send and receive for every
\* client socket of the map, next_poll from iface.poll_delay.
TcpPoll ==
    /\ tcp_pc = "running"
    /\ TcpSleepReady
    /\ LET live == DOMAIN tcp_port_client_handle_map \ Reaped
           gone == {tcp_port_client_handle_map[v] : v \in Reaped}
       IN  \E f \in TcpCombine(live) :
             /\ tcp_port_client_handle_map' = Restrict(tcp_port_client_handle_map, live)
             /\ tcp_send_queue' =
                  [v \in DOMAIN tcp_send_queue \ Reaped |->
                     IF v \in live THEN f[v].queue ELSE tcp_send_queue[v]]
             /\ tcp_sockets' =
                  [h \in DOMAIN tcp_sockets \ gone |->
                     IF \E v \in live : tcp_port_client_handle_map[v] = h
                       THEN f[CHOOSE v \in live : tcp_port_client_handle_map[v] = h].sock
                       ELSE tcp_sockets[h]]
             /\ tcp_sent' =
                  [v \in VirtualPorts |->
                     IF v \in live THEN tcp_sent[v] \o f[v].sent
                     ELSE IF v \in Reaped THEN <<>> ELSE tcp_sent[v]]
             /\ tcp_accepted' =
                  [v \in VirtualPorts |-> IF v \in Reaped THEN <<>> ELSE tcp_accepted[v]]
             /\ tcp_remote_data' =
                  [v \in VirtualPorts |->
                     IF v \in live THEN tcp_remote_data[v] \o f[v].remote
                     ELSE IF v \in Reaped THEN <<>> ELSE tcp_remote_data[v]]
    /\ \E delay \in PollDelays :
         /\ tcp_poll_cause' = delay
         /\ tcp_next_poll' = NextPoll(delay)
    /\ UNCHANGED <<tcp_pc, tcp_ip_addrs, tcp_ip_addrs>>
    /\ UNCHANGED <<busVars, notTcp>>

\* The event arm receives the oldest event of the endpoint.
TcpReceives(type) ==
    /\ tcp_pc = "running"
    /\ bus # <<>>
    /\ Head(bus).type = type
    /\ bus' = Tail(bus)
    /\ UNCHANGED <<published, proxy_phase, kill_signal>>
    /\ UNCHANGED notTcp

\* port_client_handle_map.insert / send_queue.insert: the entry of the port
\* is replaced.
MapInsert(m, v, x) == [u \in DOMAIN m \cup {v} |-> IF u = v THEN x ELSE m[u]]

\* A ClientConnectionInitiated arm that adds the socket and the map entry
\* but no send queue: what the arm must not be.
TcpOnInitiatedWithoutQueue ==
    /\ TcpReceives("ClientConnectionInitiated")
    /\ LET v == Head(bus).port
           client_handle == NewHandle(tcp_sockets)
       IN  /\ tcp_sockets' = MapInsert(tcp_sockets, client_handle, NewClientSocket)
           /\ tcp_port_client_handle_map' =
                MapInsert(tcp_port_client_handle_map, v, client_handle)
    /\ tcp_next_poll' = "None"
    /\ tcp_poll_cause' = "event"
    /\ UNCHANGED <<tcp_pc, tcp_ip_addrs, tcp_send_queue, tcp_accepted, tcp_sent, tcp_remote_data>>

\* ClientConnectionInitiated(port_forward, virtual_port), connect succeeds.
TcpOnInitiated ==
    /\ TcpReceives("ClientConnectionInitiated")
    /\ LET v == Head(bus).port
           client_handle == NewHandle(tcp_sockets)
       IN  /\ tcp_sockets' = MapInsert(tcp_sockets, client_handle, NewClientSocket)
           /\ tcp_port_client_handle_map' =
                MapInsert(tcp_port_client_handle_map, v, client_handle)
           /\ tcp_send_queue' = MapInsert(tcp_send_queue, v, <<>>)
           /\ tcp_accepted' = [tcp_accepted EXCEPT ![v] = <<>>]
           /\ tcp_sent' = [tcp_sent EXCEPT ![v] = <<>>]
           /\ tcp_remote_data' = [tcp_remote_data EXCEPT ![v] = <<>>]
    /\ tcp_next_poll' = "None"
    /\ tcp_poll_cause' = "event"
    /\ UNCHANGED <<tcp_pc, tcp_ip_addrs, tcp_ip_addrs>>

\* ClientConnectionInitiated when connect returns an error: the `?` returns
\* the error from poll_loop.
TcpOnInitiatedFails ==
    /\ TcpReceives("ClientConnectionInitiated")
    /\ TcpReturn("err")

\* ClientConnectionDropped(virtual_port): close the socket of the port.
TcpOnDropped ==
    /\ TcpReceives("ClientConnectionDropped")
    /\ LET v == Head(bus).port
       IN  IF v \in DOMAIN tcp_port_client_handle_map
             THEN /\ tcp_sockets' =
                       [tcp_sockets EXCEPT ![tcp_port_client_handle_map[v]] =
                          [@ EXCEPT !.state = StateAfterClose(@)]]
                  /\ tcp_next_poll' = "None"
                  /\ tcp_poll_cause' = "event"
             ELSE UNCHANGED <<tcp_sockets, tcp_next_poll, tcp_poll_cause>>
    /\ UNCHANGED <<tcp_pc, tcp_ip_addrs, tcp_port_client_handle_map, tcp_send_queue, tcp_accepted,
                   tcp_sent, tcp_remote_data>>

\* A LocalData arm without the contains_key guard, which makes a queue for a
\* port that has none: what the arm must not be.
TcpOnLocalDataCreatesQueue ==
    /\ TcpReceives("LocalData")
    /\ LET v == Head(bus).port
           data == Head(bus).data
           q == IF v \in DOMAIN tcp_send_queue THEN tcp_send_queue[v] ELSE <<>>
       IN  /\ tcp_send_queue' = MapInsert(tcp_send_queue, v, Append(q, data))
           /\ tcp_accepted' = [tcp_accepted EXCEPT ![v] = @ \o data]
    /\ tcp_next_poll' = "None"
    /\ tcp_poll_cause' = "event"
    /\ UNCHANGED <<tcp_pc, tcp_ip_addrs, tcp_port_client_handle_map, tcp_sockets, tcp_sent,
                   tcp_remote_data>>

\* LocalData(_, virtual_port, data): appended when the port has a queue,
\* ignored otherwise.
TcpOnLocalData ==
    /\ TcpReceives("LocalData")
    /\ LET v == Head(bus).port
           data == Head(bus).data
       IN  IF v \in DOMAIN tcp_send_queue
             THEN /\ tcp_send_queue' = [tcp_send_queue EXCEPT ![v] = Append(@, data)]
                  /\ tcp_accepted' = [tcp_accepted EXCEPT ![v] = @ \o data]
                  /\ tcp_next_poll' = "None"
                  /\ tcp_poll_cause' = "event"
             ELSE UNCHANGED <<tcp_send_queue, tcp_accepted, tcp_next_poll, tcp_poll_cause>>
    /\ UNCHANGED <<tcp_pc, tcp_ip_addrs, tcp_port_client_handle_map, tcp_sockets, tcp_sent,
                   tcp_remote_data>>

\* VirtualDeviceFed(protocol): forces a poll when the protocol is TCP.
TcpOnFed ==
    /\ TcpReceives("VirtualDeviceFed")
    /\ IF Head(bus).proto = "Tcp"
         THEN tcp_next_poll' = "None" /\ tcp_poll_cause' = "event"
         ELSE UNCHANGED <<tcp_next_poll, tcp_poll_cause>>
    /\ UNCHANGED <<tcp_pc, tcp_ip_addrs, tcp_port_client_handle_map, tcp_send_queue, tcp_sockets,
                   tcp_accepted, tcp_sent, tcp_remote_data>>

\* The kill arm: return Ok(()).
TcpKilled ==
    /\ tcp_pc = "running"
    /\ kill_signal
    /\ TcpReturn("ok")
    /\ UNCHANGED <<busVars, notTcp>>


\* ---------------------------------------------------------------------------
\* UdpVirtualInterface::poll_loop (src/src/virtual_iface/udp.rs)
\* ---------------------------------------------------------------------------

\* The forwards the interface keeps (new): those whose protocol is UDP.
UdpForwards == {i \in DOMAIN port_forwards : port_forwards[i] = "Udp"}

UdpRemoteForwards == {i \in DOMAIN remote_port_forwards : remote_port_forwards[i] = "Udp"}

\* VirtualPort::new(num, protocol)
VirtualPort(num, proto) == <<num, proto>>

\* The virtual port of remote forward i:
\* VirtualPort::new(remote_port_forward.source.port(), PortProtocol::Udp).
RemoteVirtualPort(i) == VirtualPort(remote_source[i][2], "Udp")

\* UdpVirtualInterface::addresses: source_peer_ip and the destination of
\* every local forward of the interface, each with prefix length 32.
UdpAddresses ==
    {IpCidr(addr, 32) :
       addr \in {source_peer_ip} \cup {destination_ip[i] : i \in UdpForwards}}

\* A UDP socket bound to (ip, port). rx holds the datagrams in the receive
\* buffer and rcvd counts the datagrams the far side has sent so far.
UdpSocket(kind, ip, port) ==
    [kind |-> kind, bound |-> <<ip, port>>, rx |-> <<>>, rcvd |-> 0]

\* new_server_socket: zero-length buffers, bound to the destination.
UdpNewServerSocket(i) == UdpSocket("server", destination_ip[i], <<"destination", i>>)

\* new_client_socket(ip, client_port): bound to (ip, client_port.num()).
UdpNewClientSocket(ip, client_port) == UdpSocket("client", ip, client_port[1])

\* The number of elements of S below i: the position of forward i among the
\* forwards S of the interface.
Rank(S, i) == Cardinality({j \in S : j < i})

\* iface.poll on one client socket: a datagram of the far side arrives, empty
\* or not, or none does.
UdpStackOutcomes(s) ==
    {s} \cup (IF s.rcvd < MaxRemote
                THEN {[s EXCEPT !.rx = Append(@, d), !.rcvd = @ + 1] :
                        d \in {<<>>, <<s.rcvd + 1>>}}
                ELSE {})

\* The send step of the poll arm for one socket with send queue q: when the
\* socket can send, the head of the queue is popped and passed to send_slice,
\* whose error is logged.
UdpSendStep(q, can_send) ==
    IF can_send /\ q # <<>>
      THEN [queue |-> Tail(q), offered |-> <<Head(q)>>]
      ELSE [queue |-> q, offered |-> <<>>]

\* The receive step of the poll arm for one socket: recv takes one datagram
\* or returns an error.
UdpRecvStep(s) ==
    IF s.rx = <<>> THEN {[sock |-> s, remote |-> <<>>]}
    ELSE { [sock |-> [s EXCEPT !.rx = Tail(@)], remote |-> RemoteDataFor(Head(s.rx))],
           [sock |-> s, remote |-> <<>>] }

\* iface.poll, the send step and the receive step for one socket of the map.
\* UdpSocket::can_send holds when the transmit buffer is not full.
UdpPollOutcomes(s, q) ==
    UNION { UNION { { [sock |-> b.sock, queue |-> UdpSendStep(q, can_send).queue,
                       offered |-> UdpSendStep(q, can_send).offered, remote |-> b.remote]
                      : b \in UdpRecvStep(s1) }
                    : can_send \in BOOLEAN }
            : s1 \in UdpStackOutcomes(s) }

\* One outcome for every port of S.
RECURSIVE UdpCombine(_)
UdpCombine(S) ==
    IF S = {} THEN {<<>>}
    ELSE LET v == CHOOSE x \in S : TRUE
         IN  { (v :> o) @@ f :
                 f \in UdpCombine(S \ {v}),
                 o \in UdpPollOutcomes(udp_sockets[udp_port_client_handle_map[v]],
                                       udp_send_queue[v]) }

\* The sleep of the select: never for (None, false), at once for (None, true),
\* and at the instant `until` for (Some(until), _), which time reaches.
UdpSleepReady == ~(udp_next_poll = "None" /\ ~wake)

\* poll_loop before the loop: one server socket for each UDP forward, then one
\* bound client socket, with its map entry and queue, for each remote forward.
UdpStartup ==
    /\ udp_pc = "init"
    /\ udp_pc' = "running"
    /\ LET servers == Cardinality(UdpForwards)
           remote_handle(i) == servers + Rank(UdpRemoteForwards, i)
           remote_ports == {RemoteVirtualPort(i) : i \in UdpRemoteForwards}
           forward_of(v) ==
               CHOOSE i \in UdpRemoteForwards :
                   /\ RemoteVirtualPort(i) = v
                   /\ \A j \in UdpRemoteForwards : RemoteVirtualPort(j) = v => j <= i
       IN  /\ udp_sockets' =
                [h \in 0..(servers + Cardinality(UdpRemoteForwards) - 1) |->
                   IF h < servers
                     THEN UdpNewServerSocket(CHOOSE i \in UdpForwards : Rank(UdpForwards, i) = h)
                     ELSE LET i == CHOOSE j \in UdpRemoteForwards : remote_handle(j) = h
                          IN  UdpNewClientSocket(remote_source[i][1], RemoteVirtualPort(i))]
           /\ udp_port_client_handle_map' =
                [v \in remote_ports |-> remote_handle(forward_of(v))]
           /\ udp_send_queue' = [v \in remote_ports |-> <<>>]
           /\ udp_received' = [v \in remote_ports |-> <<>>]
           /\ udp_offered' = [v \in remote_ports |-> <<>>]
           /\ udp_remote_data' = [v \in remote_ports |-> <<>>]
    /\ udp_next_poll' = "None"
    /\ wake' = FALSE
    /\ udp_ip_addrs' = UdpAddresses
    /\ UNCHANGED udp_poll_cause
    /\ UNCHANGED <<busVars, notUdp>>

\* poll_loop returns: its interface, map and queues are dropped.
UdpReturn(result) ==
    /\ udp_pc' = result
    /\ udp_port_client_handle_map' = <<>>
    /\ udp_send_queue' = <<>>
    /\ udp_sockets' = <<>>
    /\ udp_next_poll' = "None"
    /\ wake' = FALSE
    /\ udp_ip_addrs' = {}
    /\ udp_poll_cause' = "none"

\* new_server_socket(...)? or new_client_socket(...)? fails before the loop:
\* bind returned an error.
UdpStartupFails ==
    /\ udp_pc = "init"
    /\ UdpForwards \cup UdpRemoteForwards # {}
    /\ UdpReturn("startup_err")
    /\ UNCHANGED <<udp_received, udp_offered, udp_remote_data>>
    /\ UNCHANGED <<busVars, notUdp>>

\* A configuration with one TCP forward, after start has spawned the tasks.
TcpConfigInit ==
    /\ port_forwards = <<"Tcp">>
    /\ remote_port_forwards = <<>>
    /\ PlainAddressing
    /\ caller_result = "Ok"
    /\ caller_handle = BlockingStartValue
    /\ start_pc = "pending"
    /\ tasks = [t \in SpawnedTasks(port_forwards, remote_port_forwards) |-> "running"]
    /\ kill_rx = SpawnedTasks(port_forwards, remote_port_forwards)
    /\ kill_pending = {}
    /\ kill_count = 0
    /\ kill_panicked = FALSE
    /\ bind_failed = {}

\* The UDP interface before poll_loop runs.
UdpInit ==
    /\ udp_pc = "init" /\ udp_next_poll = "None" /\ wake = FALSE
    /\ udp_port_client_handle_map = <<>> /\ udp_send_queue = <<>> /\ udp_sockets = <<>>
    /\ udp_received = <<>> /\ udp_offered = <<>> /\ udp_remote_data = <<>>
    /\ udp_ip_addrs = {}
    /\ udp_poll_cause = "none"

TcpSpecInit == TcpConfigInit /\ BusInit /\ TcpInit /\ UdpInit

TcpNext ==
    \/ \E v \in VirtualPorts : ProxyAccept(v)
    \/ \E v \in VirtualPorts : \E n \in 1..MaxChunk : ProxyLocalData(v, n)
    \/ \E v \in VirtualPorts : ProxyEof(v)
    \/ \E v \in VirtualPorts : ProxyRelease(v)
    \/ \E proto \in Protocols : DeviceFed(proto)
    \/ KillSent
    \/ TcpStartup
    \/ TcpStartupFails
    \/ TcpPoll
    \/ TcpOnInitiated
    \/ TcpOnInitiatedFails
    \/ TcpOnDropped
    \/ TcpOnLocalData
    \/ TcpOnFed
    \/ TcpKilled

TcpSpec == TcpSpecInit /\ [][TcpNext]_vars

\* The poll arm of the select: iface.poll, send and receive for every socket
\* of the map, next_poll from iface.poll_delay. wake is left as it is.
UdpPoll ==
    /\ udp_pc = "running"
    /\ UdpSleepReady
    /\ LET ports == DOMAIN udp_port_client_handle_map
       IN  \E f \in UdpCombine(ports) :
             /\ udp_send_queue' = [v \in ports |-> f[v].queue]
             /\ udp_sockets' =
                  [h \in DOMAIN udp_sockets |->
                     IF \E v \in ports : udp_port_client_handle_map[v] = h
                       THEN f[CHOOSE v \in ports : udp_port_client_handle_map[v] = h].sock
                       ELSE udp_sockets[h]]
             /\ udp_offered' = [v \in ports |-> udp_offered[v] \o f[v].offered]
             /\ udp_remote_data' = [v \in ports |-> udp_remote_data[v] \o f[v].remote]
    /\ \E delay \in PollDelays :
         /\ udp_poll_cause' = delay
         /\ udp_next_poll' = NextPoll(delay)
    /\ UNCHANGED <<udp_pc, udp_ip_addrs, wake, udp_port_client_handle_map, udp_received>>
    /\ UNCHANGED <<busVars, notUdp>>

\* The event arm receives the oldest event of the endpoint.
UdpReceives ==
    /\ udp_pc = "running"
    /\ bus # <<>>
    /\ bus' = Tail(bus)
    /\ UNCHANGED <<published, proxy_phase, kill_signal>>
    /\ UNCHANGED notUdp

\* The log f with x appended to the entry of port v.
LogAppend(f, v, x) == MapInsert(f, v, (IF v \in DOMAIN f THEN f[v] ELSE <<>>) \o <<x>>)

\* LocalData(port_forward, virtual_port, data): pushed to the queue of the
\* port, or, for a port without queue, a client socket bound to the port is
\* added with a map entry and a queue holding the datagram.
UdpOnLocalData ==
    /\ UdpReceives
    /\ Head(bus).type = "LocalData"
    /\ LET virtual_port == VirtualPort(Head(bus).port, Head(bus).proto)
           datagram == <<Head(bus).forward, Head(bus).data>>
           client_handle == NewHandle(udp_sockets)
       IN  /\ IF virtual_port \in DOMAIN udp_send_queue
                THEN /\ udp_send_queue' =
                          [udp_send_queue EXCEPT ![virtual_port] = Append(@, datagram)]
                     /\ UNCHANGED <<udp_sockets, udp_port_client_handle_map, udp_offered,
                                    udp_remote_data>>
                ELSE /\ udp_sockets' =
                          MapInsert(udp_sockets, client_handle,
                                    UdpNewClientSocket(source_peer_ip, virtual_port))
                     /\ udp_port_client_handle_map' =
                          MapInsert(udp_port_client_handle_map, virtual_port, client_handle)
                     /\ udp_send_queue' = MapInsert(udp_send_queue, virtual_port, <<datagram>>)
                     /\ udp_offered' = MapInsert(udp_offered, virtual_port, <<>>)
                     /\ udp_remote_data' = MapInsert(udp_remote_data, virtual_port, <<>>)
           /\ udp_received' = LogAppend(udp_received, virtual_port, datagram)
    /\ udp_next_poll' = "None"
    /\ wake' = TRUE
    /\ udp_poll_cause' = "event"
    /\ UNCHANGED <<udp_pc, udp_ip_addrs, udp_ip_addrs>>

\* LocalData for a port without queue when new_client_socket returns an
\* error: the `?` returns the error from poll_loop.
UdpOnLocalDataFails ==
    /\ UdpReceives
    /\ Head(bus).type = "LocalData"
    /\ LET virtual_port == VirtualPort(Head(bus).port, Head(bus).proto)
           datagram == <<Head(bus).forward, Head(bus).data>>
       IN  /\ virtual_port \notin DOMAIN udp_send_queue
           /\ udp_received' = LogAppend(udp_received, virtual_port, datagram)
    /\ UdpReturn("err")
    /\ UNCHANGED <<udp_offered, udp_remote_data>>

\* VirtualDeviceFed(protocol) if protocol == Udp: forces a poll.
UdpOnFed ==
    /\ UdpReceives
    /\ Head(bus).type = "VirtualDeviceFed" /\ Head(bus).proto = "Udp"
    /\ udp_next_poll' = "None"
    /\ wake' = TRUE
    /\ udp_poll_cause' = "event"
    /\ UNCHANGED <<udp_pc, udp_ip_addrs, udp_port_client_handle_map, udp_send_queue, udp_sockets,
                   udp_received, udp_offered, udp_remote_data>>

\* Every other event: nothing.
UdpOnOther ==
    /\ UdpReceives
    /\ Head(bus).type # "LocalData"
    /\ ~(Head(bus).type = "VirtualDeviceFed" /\ Head(bus).proto = "Udp")
    /\ UNCHANGED udpVars

\* UDP proxy server of forward f: a datagram of n bytes from an OS peer whose
\* virtual port is v is published as LocalData(forward, vport, bytes).
UdpProxyDatagram(f, v, n) ==
    /\ Publish(Event("LocalData", f, v, "Udp", Payload(published, n)))
    /\ UNCHANGED <<proxy_phase, kill_signal, ifaceVars>>

\* The UDP port pool ages out the port v of a flow whose datagrams the
\* interface has received, and ClientConnectionDropped(v) is published.
UdpPortAgedOut(v) ==
    /\ VirtualPort(v, "Udp") \in DOMAIN udp_received
    /\ Publish(Event("ClientConnectionDropped", NoForward, v, "Udp", <<>>))
    /\ UNCHANGED <<proxy_phase, kill_signal, ifaceVars>>

\* The tasks that run a UDP proxy server: the UDP forwards and the UDP remote
\* forwards (port_forward, remote_port_forward).
UdpProxyServers ==
    {<<"pf", i>> : i \in UdpForwards} \cup {<<"rpf", i>> : i \in UdpRemoteForwards}

\* A configuration with one UDP forward, one TCP forward and one UDP remote
\* forward, after start has spawned the tasks.
UdpConfigInit ==
    /\ port_forwards = <<"Udp", "Tcp">>
    /\ remote_port_forwards = <<"Udp">>
    /\ PlainAddressing
    /\ caller_result = "Ok"
    /\ caller_handle = BlockingStartValue
    /\ start_pc = "pending"
    /\ tasks = [t \in SpawnedTasks(port_forwards, remote_port_forwards) |-> "running"]
    /\ kill_rx = SpawnedTasks(port_forwards, remote_port_forwards)
    /\ kill_pending = {}
    /\ kill_count = 0
    /\ kill_panicked = FALSE
    /\ bind_failed = {}

UdpSpecInit == UdpConfigInit /\ BusInit /\ TcpInit /\ UdpInit

UdpNext ==
    \/ \E f \in UdpProxyServers : \E v \in UdpVirtualPorts : \E n \in 0..MaxDatagram :
         UdpProxyDatagram(f, v, n)
    \/ \E v \in UdpVirtualPorts : UdpPortAgedOut(v)
    \/ \E v \in VirtualPorts : ProxyAccept(v)
    \/ \E v \in VirtualPorts : \E n \in 1..MaxChunk : ProxyLocalData(v, n)
    \/ \E v \in VirtualPorts : ProxyEof(v)
    \/ \E v \in VirtualPorts : ProxyRelease(v)
    \/ \E proto \in Protocols : DeviceFed(proto)
    \/ UdpStartup
    \/ UdpStartupFails
    \/ UdpPoll
    \/ UdpOnLocalData
    \/ UdpOnLocalDataFails
    \/ UdpOnFed
    \/ UdpOnOther

UdpSpec == UdpSpecInit /\ [][UdpNext]_vars

\* ---------------------------------------------------------------------------
\* The startup of the two interfaces for every configuration of the bounds.
\* ---------------------------------------------------------------------------

\* Any configuration, after start has spawned the tasks: the address of the
\* source peer, of every destination and of every remote source is IPv4 or
\* IPv6, and remote forwards choose their source ports freely.
StartupConfigInit ==
    /\ port_forwards \in SeqsUpTo(Protocols, MaxForwards)
    /\ remote_port_forwards \in SeqsUpTo(Protocols, MaxRemoteForwards)
    /\ source_peer_ip \in IpAddrs
    /\ destination_ip \in [DOMAIN port_forwards -> IpAddrs]
    /\ remote_source \in [DOMAIN remote_port_forwards -> IpAddrs \X RemotePorts]
    /\ caller_result = "Ok"
    /\ caller_handle = BlockingStartValue
    /\ start_pc = "pending"
    /\ tasks = [t \in SpawnedTasks(port_forwards, remote_port_forwards) |-> "running"]
    /\ kill_rx = SpawnedTasks(port_forwards, remote_port_forwards)
    /\ kill_pending = {}
    /\ kill_count = 0
    /\ kill_panicked = FALSE
    /\ bind_failed = {}

StartupInit == StartupConfigInit /\ BusInit /\ TcpInit /\ UdpInit

\* poll_loop of each interface start has spawned, up to its loop.
StartupNext ==
    \/ SpawnsTcpIface(port_forwards) /\ TcpStartup
    \/ SpawnsTcpIface(port_forwards) /\ TcpStartupFails
    \/ SpawnsUdpIface(port_forwards, remote_port_forwards) /\ UdpStartup
    \/ SpawnsUdpIface(port_forwards, remote_port_forwards) /\ UdpStartupFails

StartupSpec == StartupInit /\ [][StartupNext]_vars

(***************************************************************************)
(* Properties of the lifecycle (Spec, FairSpec).                           *)
(***************************************************************************)

\* C1: after kill() every spawned task - the tunnel's routine, consume and
\* produce tasks, the TCP and the UDP poll loop, every port-forward and
\* remote-port-forward task - eventually returns.
C1_KillStopsEveryTask ==
    (kill_count > 0) ~> (\A t \in DOMAIN tasks : tasks[t] # "running")

\* C2: a second kill() on the same Handle, after the tasks have returned and
\* dropped their receivers, is a no-op: it never panics.
C2_SecondKillIsNoOp == kill_count >= 2 => ~kill_panicked

\* C6: the caller of start / blocking_start that got a result holds the
\* Handle that owns the kill channel of the tasks started.
C6_CallerReceivesHandle == caller_result = "Ok" => caller_handle = "handle"

\* C7: a failure of the tunnel's initialisation, or of the initial bind of a
\* proxy server, is reported to the caller of start / blocking_start as Err.
C7_InitFailureReported ==
    (start_pc = "panicked" \/ bind_failed # {}) => caller_result = "Err"

\* C9: a remote forward whose protocol is TCP is rejected with an error: its
\* task never ends with Ok.
C9_RemoteTcpRejected ==
    \A i \in DOMAIN remote_port_forwards :
        (remote_port_forwards[i] = "Tcp" /\ <<"rpf", i>> \in DOMAIN tasks)
            => tasks[<<"rpf", i>>] # "ok"

C12_ShutdownArmOnlyAfterKill ==
    \A t \in DOMAIN tasks :
        tasks[t] = "ok" =>
            \/ kill_count > 0
            \/ t[1] = "rpf" /\ remote_port_forwards[t[2]] = "Tcp"

\* C12 witness: the task of a UDP remote forward has left its loop through
\* the shutdown arm, after a kill.
C12_Witness ==
    \E i \in DOMAIN remote_port_forwards :
        /\ remote_port_forwards[i] = "Udp"
        /\ <<"rpf", i>> \in DOMAIN tasks
        /\ tasks[<<"rpf", i>>] = "ok"

\* C25: start spawns the TCP interface iff a local forward is TCP and the UDP
\* interface iff a local or a remote forward is UDP, at most one interface
\* for a protocol, and an interface keeps the forwards of its protocol only.
C25_OneInterfacePerProtocolUsed ==
    start_pc = "pending" =>
      /\ <<"tcp_iface", 0>> \in DOMAIN tasks
           <=> (\E i \in DOMAIN port_forwards : port_forwards[i] = "Tcp")
      /\ <<"udp_iface", 0>> \in DOMAIN tasks
           <=> \/ \E i \in DOMAIN port_forwards : port_forwards[i] = "Udp"
               \/ \E i \in DOMAIN remote_port_forwards : remote_port_forwards[i] = "Udp"
      /\ \A proto \in {"tcp_iface", "udp_iface"} :
           Cardinality({t \in DOMAIN tasks : t[1] = proto}) <= 1
      /\ \A i \in TcpForwards : port_forwards[i] = "Tcp"
      /\ \A i \in UdpForwards : port_forwards[i] = "Udp"
      /\ \A i \in UdpRemoteForwards : remote_port_forwards[i] = "Udp"

\* start has spawned both interfaces, the UDP one for a remote forward only.
C25_Witness ==
    /\ start_pc = "pending"
    /\ <<"tcp_iface", 0>> \in DOMAIN tasks
    /\ <<"udp_iface", 0>> \in DOMAIN tasks
    /\ \A i \in DOMAIN port_forwards : port_forwards[i] = "Tcp"

(***************************************************************************)
(* Properties of the TCP interface (TcpSpec).                              *)
(***************************************************************************)

\* C3: when the interface closes the socket of a port on
\* ClientConnectionDropped, every LocalData published before it for the port
\* has been handed to send_slice: the send queue of the port is empty, so
\* the close discards no queued byte.
C3_CloseAfterQueueDrained ==
    [][\A v \in DOMAIN tcp_port_client_handle_map :
         (TcpOnDropped /\ Head(bus).port = v) => tcp_send_queue[v] = <<>>]_vars

\* C4: for every port, the bytes send_slice has accepted are a prefix of the
\* concatenation of the LocalData payloads accepted for the port.
C4_SentIsPrefixOfAccepted ==
    \A v \in VirtualPorts : IsPrefix(tcp_sent[v], tcp_accepted[v])

\* C5: every client socket in the interface's socket set is referenced by the
\* record of a virtual port (the map holds at most one record per port).
C5_EveryClientSocketMapped ==
    \A h \in DOMAIN tcp_sockets :
        tcp_sockets[h].kind = "client"
            => \E v \in DOMAIN tcp_port_client_handle_map :
                 tcp_port_client_handle_map[v] = h

\* C8: the poll loops return only on the shutdown signal: neither loop has
\* returned through the failure of one flow (connect of a new TCP connection,
\* bind for the first UDP LocalData of a port).
C8_FlowFailureKeepsLoopRunning == tcp_pc # "err" /\ udp_pc # "err"

\* The concatenation of the sequences of a sequence.
RECURSIVE Flatten(_)
Flatten(ss) == IF ss = <<>> THEN <<>> ELSE Head(ss) \o Flatten(Tail(ss))

\* A step of the poll arm of the TCP loop: the loop runs before and after the
\* step and the step takes no event from the endpoint (every other step of
\* the specification changes the endpoint, the environment or tcp_pc).
TcpPollStep ==
    /\ tcp_pc = "running" /\ tcp_pc' = "running"
    /\ UNCHANGED busVars

\* Handle h is a client socket of the interface in state Closed.
ClosedClient(h) ==
    /\ h \in DOMAIN tcp_sockets
    /\ tcp_sockets[h].kind = "client"
    /\ tcp_sockets[h].state = "Closed"

\* C13: the poll loop reaps every client socket whose state has become
\* Closed, and only those: a poll removes each socket that was Closed from the
\* socket set, removes from the port map and from the send queues exactly the
\* ports whose socket was Closed, and keeps the other records.
C13_ClosedSocketsReaped ==
    [][TcpPollStep =>
         /\ \A h \in DOMAIN tcp_sockets : ClosedClient(h) => h \notin DOMAIN tcp_sockets'
         /\ \A v \in DOMAIN tcp_port_client_handle_map :
              LET h == tcp_port_client_handle_map[v]
              IN  IF tcp_sockets[h].state = "Closed"
                    THEN v \notin DOMAIN tcp_port_client_handle_map'
                         /\ v \notin DOMAIN tcp_send_queue'
                    ELSE v \in DOMAIN tcp_port_client_handle_map'
                         /\ tcp_port_client_handle_map'[v] = h
                         /\ v \in DOMAIN tcp_send_queue'
                         /\ h \in DOMAIN tcp_sockets'
      ]_vars

\* The event arm of the TCP loop receives VirtualDeviceFed(TCP).
TcpFedReceived ==
    /\ tcp_pc = "running" /\ bus # <<>> /\ bus' = Tail(bus)
    /\ Head(bus).type = "VirtualDeviceFed" /\ Head(bus).proto = "Tcp"

\* C16: once VirtualDeviceFed(TCP) has been received the poll arm of the
\* loop is ready to run without a further event, whether or not the port map
\* holds a client socket.
C16_FedForcesPoll ==
    [][TcpFedReceived => TcpSleepReady']_vars

\* C17: a poll of the TCP interface runs only when the stack returned a delay
\* of zero, when the instant now + d of a non-zero delay d is reached, or
\* when a bus event forced it: after a poll for which the stack reported no
\* pending deadline the loop does not poll again before an event, also while
\* client sockets are live.
C17_TcpPollsOnlyWhenDue ==
    [][TcpPollStep => tcp_poll_cause # "none"]_vars

\* C18: a poll step closes a client socket (CloseWait to LastAck) only when
\* the send queue of its port is empty: for a port whose queue holds data the
\* step sends from the queue and leaves the socket open.
C18_PollClosesOnlyWhenQueueEmpty ==
    [][TcpPollStep =>
         \A v \in DOMAIN tcp_port_client_handle_map :
            LET h == tcp_port_client_handle_map[v]
            IN  (/\ tcp_sockets[h].state # "LastAck"
                 /\ h \in DOMAIN tcp_sockets'
                 /\ tcp_sockets'[h].state = "LastAck")
                => tcp_send_queue[v] = <<>>
      ]_vars

\* A connection whose client has not closed, whose LocalData has been sent
\* and whose socket the poll step has closed after the far side half-closed.
C18_Witness ==
    /\ bus = <<>>
    /\ \E v \in DOMAIN tcp_port_client_handle_map :
         /\ proxy_phase[v] = "open"
         /\ tcp_sockets[tcp_port_client_handle_map[v]].state = "LastAck"
         /\ tcp_sent[v] # <<>>
         /\ tcp_send_queue[v] = <<>>

\* C19: an error of iface.poll, send_slice or recv is only logged. Whatever
\* the stack returns, an iteration of the poll arm of the TCP and of the UDP
\* loop leaves the loop running, changes the port map by the reap of Closed
\* sockets only (the UDP map not at all), keeps the queue of every other port
\* and ends with next_poll computed from iface.poll_delay.
C19_StackErrorsOnlyLogged ==
    [][/\ (tcp_pc = "running" /\ UNCHANGED busVars /\ tcp_pc' # "ok") =>
            /\ tcp_pc' = "running"
            /\ tcp_port_client_handle_map' =
                 Restrict(tcp_port_client_handle_map,
                          DOMAIN tcp_port_client_handle_map \ Reaped)
            /\ DOMAIN tcp_send_queue' = DOMAIN tcp_send_queue \ Reaped
            /\ tcp_poll_cause' \in PollDelays
            /\ tcp_next_poll' = NextPoll(tcp_poll_cause')
       /\ (udp_pc = "running" /\ UNCHANGED busVars) =>
            /\ udp_pc' = "running"
            /\ udp_port_client_handle_map' = udp_port_client_handle_map
            /\ DOMAIN udp_send_queue' = DOMAIN udp_send_queue
            /\ DOMAIN udp_sockets' = DOMAIN udp_sockets
            /\ udp_poll_cause' \in PollDelays
            /\ udp_next_poll' = NextPoll(udp_poll_cause')
      ]_vars

\* The loop is running with next_poll set by the stack after send_slice has
\* returned an error: the only LocalData chunk of a connection has left the
\* queue and no byte of it was sent.
C19_Witness ==
    /\ tcp_pc = "running"
    /\ tcp_next_poll = "Some"
    /\ published = 2 /\ bus = <<>>
    /\ \E v \in DOMAIN tcp_port_client_handle_map :
         /\ tcp_accepted[v] # <<>>
         /\ tcp_sent[v] = <<>>
         /\ tcp_send_queue[v] = <<>>

\* The event arm of the TCP loop receives LocalData.
TcpLocalDataReceived ==
    /\ tcp_pc = "running" /\ bus # <<>> /\ bus' = Tail(bus)
    /\ Head(bus).type = "LocalData"

\* C21: LocalData(_, v, bytes) for a port without send queue is ignored: no
\* queue and no socket is created, no queue changes and no poll is forced;
\* for a port with a queue the bytes become the last element of that queue
\* and no other queue, socket or map entry changes.
C21_LocalDataWithoutQueueIgnored ==
    [][TcpLocalDataReceived =>
         LET v == Head(bus).port
         IN  /\ tcp_port_client_handle_map' = tcp_port_client_handle_map
             /\ tcp_sockets' = tcp_sockets
             /\ tcp_pc' = "running"
             /\ IF v \in DOMAIN tcp_send_queue
                  THEN tcp_send_queue' =
                         [tcp_send_queue EXCEPT ![v] = Append(@, Head(bus).data)]
                  ELSE /\ tcp_send_queue' = tcp_send_queue
                       /\ tcp_next_poll' = tcp_next_poll
      ]_vars

\* LocalData of a port whose flow record has been reaped is the next event of
\* the running loop, which sleeps until an instant the stack has set.
C21_Witness ==
    /\ tcp_pc = "running"
    /\ tcp_next_poll = "Some"
    /\ bus # <<>>
    /\ Head(bus).type = "LocalData"
    /\ Head(bus).port \notin DOMAIN tcp_send_queue

\* C27: while the flow record of a port exists no accepted byte is lost: the
\* bytes accepted from LocalData are the bytes taken by send_slice followed
\* by the bytes still in the send queue of the port.
C27_NoAcceptedByteLost ==
    \A v \in DOMAIN tcp_send_queue :
        tcp_accepted[v] = tcp_sent[v] \o Flatten(tcp_send_queue[v])

(***************************************************************************)
(* Properties of the UDP interface (UdpSpec).                              *)
(***************************************************************************)

\* One iteration of the poll arm of the UDP loop.
UdpPollStep ==
    /\ udp_pc = "running" /\ udp_pc' = "running"
    /\ UNCHANGED busVars

\* The event arm receives ClientConnectionDropped(v) of a UDP port.
UdpDropReceived ==
    /\ udp_pc = "running" /\ bus # <<>> /\ bus' = Tail(bus)
    /\ Head(bus).type = "ClientConnectionDropped" /\ Head(bus).proto = "Udp"

\* C14: when the pool has aged a port out and the interface receives
\* ClientConnectionDropped for it, the flow record of the port - map entry,
\* socket and send queue - is released.
C14_DroppedFlowReleased ==
    [][UdpDropReceived =>
         LET v == VirtualPort(Head(bus).port, "Udp")
         IN  /\ v \notin DOMAIN udp_port_client_handle_map'
             /\ v \notin DOMAIN udp_send_queue'
      ]_vars

\* C15: the UDP interface polls only when a bus event has arrived since its
\* previous poll or the stack has scheduled the poll; after a poll for which
\* the stack has nothing scheduled it does not poll again before an event.
C15_UdpPollsOnlyWhenDue ==
    [][UdpPollStep => udp_poll_cause # "none"]_vars

\* The event arm of the UDP loop receives LocalData.
UdpLocalDataReceived ==
    /\ udp_pc = "running" /\ bus # <<>> /\ bus' = Tail(bus)
    /\ Head(bus).type = "LocalData"

\* What handling LocalData(forward, v, bytes) does to the flow records.
LocalDataEffect ==
    LET v == VirtualPort(Head(bus).port, Head(bus).proto)
        datagram == <<Head(bus).forward, Head(bus).data>>
        before == IF v \in DOMAIN udp_send_queue THEN udp_send_queue[v] ELSE <<>>
    IN  /\ v \in DOMAIN udp_port_client_handle_map'
        /\ v \in DOMAIN udp_send_queue'
        /\ udp_send_queue'[v] = Append(before, datagram)
        /\ IF v \in DOMAIN udp_port_client_handle_map
             THEN udp_port_client_handle_map'[v] = udp_port_client_handle_map[v]
             ELSE /\ udp_port_client_handle_map'[v] \notin DOMAIN udp_sockets
                  /\ udp_sockets'[udp_port_client_handle_map'[v]] =
                       UdpNewClientSocket(source_peer_ip, v)
        /\ udp_next_poll' = "None" /\ UdpSleepReady'
        /\ \A w \in DOMAIN udp_port_client_handle_map \ {v} :
             /\ w \in DOMAIN udp_port_client_handle_map'
             /\ udp_port_client_handle_map'[w] = udp_port_client_handle_map[w]
             /\ udp_send_queue'[w] = udp_send_queue[w]
        /\ \A h \in DOMAIN udp_sockets :
             h \in DOMAIN udp_sockets' /\ udp_sockets'[h] = udp_sockets[h]

\* C20: LocalData(forward, v, bytes) received by the UDP interface: a port
\* without socket gets a client socket bound to (source_peer_ip, v), a map
\* entry and a queue; the datagram becomes the last element of the queue of
\* v, an immediate poll is forced, and the sockets and queues of the other
\* ports are unchanged.
C20_LocalDataEnqueued ==
    [][UdpLocalDataReceived => LocalDataEffect]_vars

\* C22: the stack of the UDP interface holds client sockets only - those of
\* the local flows and the pre-bound ones of the remote forwards - and no
\* server socket of a forward.
C22_NoUdpServerSocket ==
    \A h \in DOMAIN udp_sockets : udp_sockets[h].kind = "client"

\* The bytes 1..n in the order in which the far side sent them.
Arrived(n) == [i \in 1..n |-> i]

\* Whether the numbers of seq are strictly increasing.
Increasing(seq) == \A i, j \in DOMAIN seq : i < j => seq[i] < seq[j]

C28_QueuesMatchPortMap ==
    /\ DOMAIN tcp_send_queue = DOMAIN tcp_port_client_handle_map
    /\ DOMAIN udp_send_queue = DOMAIN udp_port_client_handle_map

\* The TCP interface holds the record of one connection, with map entry and
\* queue, after the record of another connection has been reaped.
C28_Witness ==
    /\ tcp_pc = "running"
    /\ bus = <<>>
    /\ DOMAIN tcp_port_client_handle_map # {}
    /\ \E w \in VirtualPorts :
         w \notin DOMAIN tcp_port_client_handle_map /\ proxy_phase[w] = "open"

\* C23: once the UDP interface has started, every remote UDP forward has a
\* client socket bound to (source.ip, source.port) that is registered in the
\* port map under VirtualPort(source.port, UDP) with an empty send queue,
\* and distinct remote forwards have distinct registered sockets.
C23_RemoteForwardsPreBound ==
    (udp_pc = "running" /\ bus = <<>> /\ published = 0) =>
      /\ \A i \in UdpRemoteForwards :
           LET v == VirtualPort(remote_source[i][2], "Udp")
           IN  /\ v \in DOMAIN udp_port_client_handle_map
               /\ v \in DOMAIN udp_send_queue /\ udp_send_queue[v] = <<>>
               /\ udp_port_client_handle_map[v] \in DOMAIN udp_sockets
               /\ udp_sockets[udp_port_client_handle_map[v]] =
                    UdpNewClientSocket(remote_source[i][1], v)
      /\ \A i, j \in UdpRemoteForwards :
           i # j =>
             udp_port_client_handle_map[VirtualPort(remote_source[i][2], "Udp")]
               # udp_port_client_handle_map[VirtualPort(remote_source[j][2], "Udp")]

\* The prefix length of a single host of an address family.
HostPrefixLen(family) == IF family = "v4" THEN 32 ELSE 128

\* C26: every address installed on an interface by addresses() is a
\* single-host prefix of its family: /32 for IPv4 and /128 for IPv6.
C26_HostPrefixes ==
    \A cidr \in tcp_ip_addrs \cup udp_ip_addrs :
        cidr.prefix_len = HostPrefixLen(cidr.address.family)

\* C29: every address to which an interface binds one of its client sockets
\* - source_peer_ip for the sockets of local flows, source.ip for the
\* pre-bound sockets of the remote forwards - is among the addresses
\* installed on that interface.
C29_BoundAddressesInstalled ==
    /\ tcp_pc = "running" =>
         source_peer_ip \in {cidr.address : cidr \in tcp_ip_addrs}
    /\ udp_pc = "running" =>
         /\ source_peer_ip \in {cidr.address : cidr \in udp_ip_addrs}
         /\ \A h \in DOMAIN udp_sockets :
              udp_sockets[h].kind = "client" =>
                udp_sockets[h].bound[1] \in {cidr.address : cidr \in udp_ip_addrs}

\* C10: the datagrams offered to the stack socket of a port are, in order and
\* with their bytes and destination, the LocalData received for the port, each
\* offered once; none is left over when the loop is gone.
C10_EveryDatagramOfferedOnce ==
    \A v \in DOMAIN udp_received :
        /\ v \in DOMAIN udp_offered => IsPrefix(udp_offered[v], udp_received[v])
        /\ udp_pc = "err" =>
             (v \in DOMAIN udp_offered /\ udp_offered[v] = udp_received[v])

====
